---- MODULE Spec2Model ----
(***************************************************************************)
(* The capture controller (src/capture.rs) and the emulation controller    *)
(* (src/server/emulation_task.rs) of lan-mouse as state machines.          *)
(***************************************************************************)
EXTENDS Integers, Sequences, FiniteSets, TLC

\* ------------------------------------------------------------ bounds
\* total number of key events that may be handed to the emulation backend
MaxToggles == 2
\* capacity of the capture request channel
MaxQueue == 1
\* datagrams in flight in one direction between a capture controller and its peer
MaxWire == 2

\* ------------------------------------------------------------ data
None == "none"
Clients == {"A", "B"}
Keys == {17, 31}
KnownAddrs == {"a1", "a2", "b1"}
UnknownAddrs == {"u1", "u2"}
Addrs == KnownAddrs \cup UnknownAddrs
Modes == {"Sending", "Receiving", "AwaitingLeave"}

\* client registry index SocketAddr -> handle
GetClient(addr) ==
    IF addr \in {"a1", "a2"} THEN "A" ELSE IF addr = "b1" THEN "B" ELSE None

\* input_event::Event, as far as the controllers look at it
Ev(t) == [t |-> t, key |-> 0, state |-> 0]
KeyEv(k, s) == [t |-> "Key", key |-> k, state |-> s]
ModifiersEv == Ev("Modifiers")
ControlEvents == {Ev("Pong"), Ev("Ping"), Ev("Disconnect"), Ev("Enter"), Ev("Leave")}
InputEvents == {Ev("Pointer")} \cup {KeyEv(k, s) : k \in Keys, s \in {0, 1}}
Events == ControlEvents \cup InputEvents

\* all orders in which the elements of a set can be drained
RECURSIVE Perms(_)
Perms(S) ==
    IF S = {} THEN {<<>>}
    ELSE UNION {{<<x>> \o p : p \in Perms(S \ {x})} : x \in S}

VARIABLES
    cancelled,      \* server.notifies.cancel has fired
    mode,           \* server.state (Global Mode)
    \* --- client registry runtime state
    pressedKeys,    \* ClientState.pressed_keys per client
    alive,          \* ClientState.alive per client
    activeAddr,     \* ClientState.active_addr per client
    \* --- emulation controller
    emuPc,          \* where emulation_task is
    emuStatus,      \* last status published by set_emulation_status
    lastIgnored,    \* last_ignored of do_emulation_session
    captureCh,      \* requests queued for the capture controller
    \* --- emulation backend, as the controller drives it
    held,           \* keys the backend holds down per client
    oddGiven,       \* parity of key events given for (client, key) since release_keys
    pressFwd,       \* inbound presses forwarded per (client, key)
    relFwd,         \* inbound releases forwarded per (client, key)
    relSynth,       \* releases synthesized by release_keys per (client, key)
    toggles,        \* inbound key events that changed pressed_keys per (client, key)
    lastEmu,        \* what the last emulation step did
    \* --- capture controller
    capPc,          \* where Capture::run is
    capStatus,      \* last status published by set_capture_status
    capState,       \* state of do_capture (Idle, WaitingForAck, Sending)
    active,         \* server.get_active(): the client marked active
    shouldRelease,  \* server.should_release latch
    capClosed,      \* the request channel was closed by Capture::terminate
    \* --- capture backend
    grab,           \* client of the backend's last Begin
    grabbed,        \* the backend holds the input grab
    \* --- history of the capture controller
    ackFrom,        \* clients whose Ack arrived since their last Begin
    openBursts,     \* clients whose Begin was handled since the last release_capture
    ackedBurst,     \* client whose Ack was handled in WaitingForAck in the open burst
    lastCap,        \* what the last capture step did
    \* --- datagrams in flight between a capture controller and its peer
    netToPeer,
    netToCap

emuVars == <<cancelled, mode, pressedKeys, alive, activeAddr, emuPc, emuStatus,
             lastIgnored, captureCh, held, oddGiven, pressFwd, relFwd, relSynth,
             toggles, lastEmu>>

\* what only the emulation side writes
emuOnly == <<mode, pressedKeys, alive, activeAddr, emuPc, emuStatus, lastIgnored,
             held, oddGiven, pressFwd, relFwd, relSynth, toggles, lastEmu>>

\* what only the capture side writes
capOnly == <<capPc, capStatus, capState, active, shouldRelease, capClosed, grab,
             grabbed, ackFrom, openBursts, ackedBurst, lastCap>>

net == <<netToPeer, netToCap>>

vars == <<emuVars, capOnly, net>>

NoStep == [op |-> "none", ev |-> Ev("none"), addr |-> None, handle |-> None,
           modeBefore |-> "Receiving", calls |-> <<>>, sent |-> <<>>,
           released |-> 0, logged |-> FALSE, timer |-> FALSE, dup |-> FALSE,
           ok |-> TRUE]

RECURSIVE SumOver(_, _)
SumOver(S, f) ==
    IF S = {} THEN 0
    ELSE LET x == CHOOSE y \in S : TRUE IN f[x] + SumOver(S \ {x}, f)
\* number of inbound key events forwarded to the backend so far
TotalFwd ==
    SumOver(Clients \X Keys,
            [p \in Clients \X Keys |-> pressFwd[p[1]][p[2]] + relFwd[p[1]][p[2]]])

\* ------------------------------------------------------------ backend
\* The emulation state a handler threads through its calls.
EmuSt == [pk |-> pressedKeys, held |-> held, odd |-> oddGiven, pf |-> pressFwd,
          rf |-> relFwd, rs |-> relSynth, tg |-> toggles, calls |-> <<>>,
          failed |-> FALSE]

\* emulate.consume(ev, h): the failAt-th call of the handler returns Err.
\* A successful key event changes what the backend holds down.
Consume(st, ev, h, synth, failAt) ==
    LET ok == Len(st.calls) + 1 # failAt
        isKey == ev.t = "Key"
        k == ev.key
    IN [st EXCEPT
          !.calls = Append(@, [ev |-> ev, h |-> h, ok |-> ok]),
          !.failed = ~ok,
          !.held = IF ok /\ isKey
                   THEN [@ EXCEPT ![h] = IF ev.state = 0 THEN @ \ {k} ELSE @ \cup {k}]
                   ELSE @,
          !.odd = IF isKey /\ ~synth THEN [@ EXCEPT ![h][k] = ~@] ELSE @,
          !.pf = IF isKey /\ ~synth /\ ev.state # 0 THEN [@ EXCEPT ![h][k] = @ + 1] ELSE @,
          !.rf = IF isKey /\ ~synth /\ ev.state = 0 THEN [@ EXCEPT ![h][k] = @ + 1] ELSE @,
          !.rs = IF isKey /\ synth THEN [@ EXCEPT ![h][k] = @ + 1] ELSE @]

\* update_client_keys that never reports a double press or release
UpdateClientKeys_NoFilter(pk, handle, key, state) ==
    LET pk2 == IF state = 0
               THEN [pk EXCEPT ![handle] = @ \ {key}]
               ELSE [pk EXCEPT ![handle] = @ \cup {key}]
    IN <<FALSE, pk2[handle] # {}, pk2>>

\* update_client_keys: <<ignore_event, restart_timer, pressed_keys'>>
UpdateClientKeys(pk, handle, key, state) ==
    LET was == key \in pk[handle]
        pk2 == IF state = 0
               THEN [pk EXCEPT ![handle] = @ \ {key}]
               ELSE [pk EXCEPT ![handle] = @ \cup {key}]
        ignore == IF state = 0 THEN ~was ELSE was
    IN <<ignore, pk2[handle] # {}, pk2>>

\* release_keys(client): drain pressed_keys, release each key in the drained
\* order, then clear the modifiers; the first failing consume returns.
RECURSIVE ReleaseEach(_, _, _, _)
ReleaseEach(st, order, client, failAt) ==
    IF st.failed THEN st
    ELSE IF order = <<>> THEN Consume(st, ModifiersEv, client, TRUE, failAt)
    ELSE ReleaseEach(Consume(st, KeyEv(Head(order), 0), client, TRUE, failAt),
                     Tail(order), client, failAt)

\* release_keys that iterates over pressed_keys without draining it
ReleaseKeys_NoDrain(st, client, order, failAt) ==
    ReleaseEach([st EXCEPT !.odd = [@ EXCEPT ![client] = [k \in Keys |-> FALSE]]],
                order, client, failAt)

ReleaseKeys(st, client, order, failAt) ==
    LET drained == [st EXCEPT !.pk = [@ EXCEPT ![client] = {}],
                              !.odd = [@ EXCEPT ![client] = [k \in Keys |-> FALSE]]]
    IN ReleaseEach(drained, order, client, failAt)

\* release_all_keys: release_keys for every client, in the registry's order
RECURSIVE ReleaseAllKeys(_, _, _, _)
ReleaseAllKeys(st, clients, orders, failAt) ==
    IF st.failed \/ clients = <<>> THEN st
    ELSE ReleaseAllKeys(ReleaseKeys(st, Head(clients), orders[Head(clients)], failAt),
                        Tail(clients), orders, failAt)

\* ------------------------------------------------------------ emulation_task
Commit(st) ==
    /\ pressedKeys' = st.pk
    /\ held' = st.held
    /\ oddGiven' = st.odd
    /\ pressFwd' = st.pf
    /\ relFwd' = st.rf
    /\ relSynth' = st.rs
    /\ toggles' = st.tg

\* do_emulation has returned: publish Disabled, leave if cancelled, else wait
AfterSession ==
    /\ emuStatus' = "Disabled"
    /\ emuPc' = IF cancelled THEN "done" ELSE "disabled"

\* input_emulation::create succeeded: publish Enabled, add the clients, start
\* the session loop with a fresh last_ignored
EmuCreateOk ==
    /\ emuPc = "create"
    /\ emuPc' = "session"
    /\ emuStatus' = "Enabled"
    /\ lastIgnored' = None
    /\ lastEmu' = [NoStep EXCEPT !.op = "create"]
    /\ UNCHANGED <<cancelled, mode, pressedKeys, alive, activeAddr, captureCh,
                   held, oddGiven, pressFwd, relFwd, relSynth, toggles>>

\* input_emulation::create returned an error
EmuCreateFail ==
    /\ emuPc = "create"
    /\ AfterSession
    /\ lastEmu' = [NoStep EXCEPT !.op = "create", !.ok = FALSE]
    /\ UNCHANGED <<cancelled, mode, pressedKeys, alive, activeAddr, captureCh,
                   lastIgnored, held, oddGiven, pressFwd, relFwd, relSynth, toggles>>

\* cancelled() won the select against input_emulation::create
EmuCreateCancelled ==
    /\ emuPc = "create"
    /\ cancelled
    /\ AfterSession
    /\ lastEmu' = [NoStep EXCEPT !.op = "create_cancelled"]
    /\ UNCHANGED <<cancelled, mode, pressedKeys, alive, activeAddr, captureCh,
                   lastIgnored, held, oddGiven, pressFwd, relFwd, relSynth, toggles>>

\* SetActiveAddr that keeps the first address a client was seen at
SetActiveAddr_FirstOnly(aa, handle, addr) ==
    [aa EXCEPT ![handle] = IF @ = None THEN addr ELSE @]

\* activate_client_if_exists: the source address becomes the client's active_addr
SetActiveAddr(aa, handle, addr) == [aa EXCEPT ![handle] = addr]

\* activate_client_if_exists warning about every datagram of an unknown address
ActivateClientIfExists_AlwaysLog(addr, li) ==
    LET h == GetClient(addr)
    IN IF h = None THEN <<None, addr, TRUE>> ELSE <<h, None, FALSE>>

\* activate_client_if_exists: <<handle, last_ignored', logged>>
ActivateClientIfExists(addr, li) ==
    LET h == GetClient(addr)
    IN IF h = None
       THEN <<None, addr, li = None \/ li # addr>>
       ELSE <<h, None, FALSE>>

\* UdpReply that leaves an Enter unanswered
UdpReply_NoLeave(ev, addr) ==
    IF ev.t = "Ping" THEN <<[ev |-> "Pong", to |-> addr]>> ELSE <<>>

\* what handle_udp_rx sends on sender_tx for an inbound event
UdpReply(ev, addr) ==
    IF ev.t = "Ping" THEN <<[ev |-> "Pong", to |-> addr]>>
    ELSE IF ev.t = "Enter" THEN <<[ev |-> "Leave", to |-> addr]>>
    ELSE <<>>

\* NextMode with a Leave that does not end AwaitingLeave
NextMode_LeaveIgnored(m, ev) ==
    CASE m = "Sending" -> IF ev.t = "Leave" THEN "Sending" ELSE "Receiving"
      [] m = "Receiving" -> "Receiving"
      [] m = "AwaitingLeave" -> IF ev.t = "Enter" THEN "Receiving" ELSE "AwaitingLeave"

\* the Global Mode after an inbound event that reaches the mode dispatch
NextMode(m, ev) ==
    CASE m = "Sending" -> IF ev.t = "Leave" THEN "Sending" ELSE "Receiving"
      [] m = "Receiving" -> "Receiving"
      [] m = "AwaitingLeave" ->
            IF ev.t = "Enter" THEN "Receiving"
            ELSE IF ev.t = "Leave" THEN "Sending" ELSE "AwaitingLeave"

\* number of CaptureEvent::Release pushed by the mode dispatch
ReleasesPushed(m, ev) ==
    CASE m = "Sending" -> IF ev.t = "Leave" THEN 0 ELSE 1
      [] m = "Receiving" -> 0
      [] m = "AwaitingLeave" -> IF ev.t = "Enter" THEN 1 ELSE 0

\* the Receiving arm: filter double key events, consume the rest
ReceiveEvent(st, ev, handle, failAt) ==
    IF ev.t = "Key"
    THEN LET u == UpdateClientKeys(st.pk, handle, ev.key, ev.state)
             st1 == [st EXCEPT !.pk = u[3],
                               !.tg = IF u[3] # st.pk
                                      THEN [@ EXCEPT ![handle][ev.key] = @ + 1] ELSE @]
         IN IF u[1] THEN st1 ELSE Consume(st1, ev, handle, FALSE, failAt)
    ELSE Consume(st, ev, handle, FALSE, failAt)

\* handle_udp_rx that emulates in AwaitingLeave as it does in Receiving
UdpRxState_Undrained(ev, handle, order, failAt) ==
    IF ev.t \in {"Pong", "Ping"} THEN EmuSt
    ELSE IF ev.t = "Disconnect" THEN ReleaseKeys(EmuSt, handle, order, failAt)
    ELSE IF mode \in {"Receiving", "AwaitingLeave"}
         THEN ReceiveEvent(EmuSt, ev, handle, failAt)
    ELSE EmuSt

\* handle_udp_rx for a datagram of a registered address: the emulation state after it
UdpRxState(ev, handle, order, failAt) ==
    IF ev.t \in {"Pong", "Ping"} THEN EmuSt
    ELSE IF ev.t = "Disconnect" THEN ReleaseKeys(EmuSt, handle, order, failAt)
    ELSE IF mode = "Receiving" THEN ReceiveEvent(EmuSt, ev, handle, failAt)
    ELSE EmuSt

InModeDispatch(ev) == ev.t \notin {"Pong", "Ping", "Disconnect"}

\* the udp_rx arm of do_emulation_session; an Err of handle_udp_rx ends the
\* session: the backend is terminated and do_emulation returns the error
EmuUdpRx(evs, addrs) ==
    /\ emuPc = "session"
    /\ \E ev \in evs, addr \in addrs :
         LET a == ActivateClientIfExists(addr, lastIgnored)
             handle == a[1]
         IN /\ lastIgnored' = a[2]
            /\ ev.t = "Key" => TotalFwd < MaxToggles
            /\ IF handle = None
               THEN /\ lastEmu' = [NoStep EXCEPT !.op = "udp", !.ev = ev, !.addr = addr,
                                                 !.modeBefore = mode, !.logged = a[3]]
                    /\ UNCHANGED <<cancelled, mode, pressedKeys, alive, activeAddr,
                                   emuPc, emuStatus, captureCh, held, oddGiven,
                                   pressFwd, relFwd, relSynth, toggles>>
               ELSE \E order \in Perms(IF ev.t = "Disconnect" THEN pressedKeys[handle] ELSE {}) :
                    \E failAt \in 0..Len(UdpRxState(ev, handle, order, 0).calls) :
                    LET st == UdpRxState(ev, handle, order, failAt)
                        disp == InModeDispatch(ev)
                        pushed == IF disp THEN ReleasesPushed(mode, ev) ELSE 0
                        timer == /\ disp /\ mode = "Receiving" /\ ev.t = "Key"
                                 /\ st.pk[handle] # {}
                    IN /\ Len(captureCh) + pushed <= MaxQueue
                       /\ alive' = [alive EXCEPT ![handle] = TRUE]
                       /\ activeAddr' = SetActiveAddr(activeAddr, handle, addr)
                       /\ mode' = IF disp THEN NextMode(mode, ev) ELSE mode
                       /\ captureCh' = IF pushed = 1
                                       THEN Append(captureCh, "Release")
                                       ELSE captureCh
                       /\ Commit(st)
                       /\ IF st.failed
                          THEN AfterSession
                          ELSE UNCHANGED <<emuPc, emuStatus>>
                       /\ lastEmu' = [op |-> "udp", ev |-> ev, addr |-> addr,
                                      handle |-> handle, modeBefore |-> mode,
                                      calls |-> st.calls, sent |-> UdpReply(ev, addr),
                                      released |-> pushed, logged |-> FALSE,
                                      timer |-> timer,
                                      dup |-> /\ ev.t = "Key"
                                              /\ (ev.state # 0) = (ev.key \in pressedKeys[handle]),
                                      ok |-> ~st.failed]
                       /\ UNCHANGED cancelled

\* the udp_rx arm when the network task delivers an error: logged, skipped
EmuNetworkError ==
    /\ emuPc = "session"
    /\ lastEmu' = [NoStep EXCEPT !.op = "network_error"]
    /\ UNCHANGED <<cancelled, mode, pressedKeys, alive, activeAddr, emuPc, emuStatus,
                   lastIgnored, captureCh, held, oddGiven, pressFwd, relFwd, relSynth, toggles>>

\* the rx arm of do_emulation_session: Create and Destroy go to the backend,
\* ReleaseKeys(c) runs release_keys
EmuRx ==
    /\ emuPc = "session"
    /\ \E req \in {"Create", "Destroy", "ReleaseKeys"}, c \in Clients :
       \E order \in Perms(IF req = "ReleaseKeys" THEN pressedKeys[c] ELSE {}) :
       \E failAt \in 0..(IF req = "ReleaseKeys" THEN Len(order) + 1 ELSE 0) :
         LET st == IF req = "ReleaseKeys" THEN ReleaseKeys(EmuSt, c, order, failAt)
                   ELSE EmuSt
         IN /\ Commit(st)
            /\ IF st.failed THEN AfterSession ELSE UNCHANGED <<emuPc, emuStatus>>
            /\ lastEmu' = [NoStep EXCEPT !.op = req, !.handle = c, !.modeBefore = mode,
                                         !.calls = st.calls, !.ok = ~st.failed]
    /\ UNCHANGED <<cancelled, mode, alive, activeAddr, lastIgnored, captureCh>>

\* the cancelled() arm: the loop breaks with Ok, the backend is terminated and
\* release_all_keys runs over the registry
EmuCancelled ==
    /\ emuPc = "session"
    /\ cancelled
    /\ \E clients \in Perms(Clients) :
       \E orders \in {o \in [Clients -> UNION {Perms(K) : K \in SUBSET Keys}] :
                         \A c \in Clients : o[c] \in Perms(pressedKeys[c])} :
       \E failAt \in 0..Len(ReleaseAllKeys(EmuSt, clients, orders, 0).calls) :
         LET st == ReleaseAllKeys(EmuSt, clients, orders, failAt)
         IN /\ Commit(st)
            /\ lastEmu' = [NoStep EXCEPT !.op = "cancelled", !.modeBefore = mode,
                                         !.calls = st.calls, !.ok = ~st.failed]
    /\ AfterSession
    /\ UNCHANGED <<cancelled, mode, alive, activeAddr, lastIgnored, captureCh>>

\* waiting for re-enable: a request received while disabled is dropped
EmuDrain ==
    /\ emuPc = "disabled"
    /\ lastEmu' = [NoStep EXCEPT !.op = "drain"]
    /\ UNCHANGED <<cancelled, mode, pressedKeys, alive, activeAddr, emuPc, emuStatus,
                   lastIgnored, captureCh, held, oddGiven, pressFwd, relFwd, relSynth, toggles>>

\* emulation_notified(): do_emulation is entered again
EmuNotified ==
    /\ emuPc = "disabled"
    /\ emuPc' = "create"
    /\ lastEmu' = [NoStep EXCEPT !.op = "notified"]
    /\ UNCHANGED <<cancelled, mode, pressedKeys, alive, activeAddr, emuStatus,
                   lastIgnored, captureCh, held, oddGiven, pressFwd, relFwd, relSynth, toggles>>

\* cancelled() while waiting for re-enable: emulation_task returns
EmuDisabledCancelled ==
    /\ emuPc = "disabled"
    /\ cancelled
    /\ emuPc' = "done"
    /\ lastEmu' = [NoStep EXCEPT !.op = "return"]
    /\ UNCHANGED <<cancelled, mode, pressedKeys, alive, activeAddr, emuStatus,
                   lastIgnored, captureCh, held, oddGiven, pressFwd, relFwd, relSynth, toggles>>

\* ------------------------------------------------------------ server context
\* shutdown is requested
Cancel ==
    /\ ~cancelled
    /\ cancelled' = TRUE
    /\ UNCHANGED <<mode, pressedKeys, alive, activeAddr, emuPc, emuStatus, lastIgnored,
                   captureCh, held, oddGiven, pressFwd, relFwd, relSynth, toggles,
                   lastEmu>>

\* the capture side entered the dead zone of a peer: inbound events are
\* discarded until the peer's Leave
EnterDeadZone ==
    /\ mode # "AwaitingLeave"
    /\ mode' = "AwaitingLeave"
    /\ lastEmu' = [NoStep EXCEPT !.op = "dead_zone", !.modeBefore = mode]
    /\ UNCHANGED <<cancelled, pressedKeys, alive, activeAddr, emuPc, emuStatus,
                   lastIgnored, captureCh, held, oddGiven, pressFwd, relFwd, relSynth,
                   toggles>>

\* ------------------------------------------------------------ Capture::run
CapStates == {"Idle", "WaitingForAck", "Sending"}
\* raw device events the capture backend reports
CapInputs == {Ev("Pointer"), KeyEv(17, 1)}
\* configured position of each client (server.get_pos)
PosOf(h) == IF h = "A" THEN "Left" ELSE "Right"

NoCapStep == [op |-> "none", ev |-> "none", raw |-> Ev("none"), handle |-> None,
              stateBefore |-> "Idle", activeBefore |-> None, sent |-> <<>>,
              sendOk |-> TRUE, calls |-> <<>>, latched |-> FALSE, latchSet |-> FALSE,
              ok |-> TRUE]

\* The capture state a handler works on.
CapSt == [pc |-> capPc, status |-> capStatus, state |-> capState, active |-> active,
          grab |-> grab, grabbed |-> grabbed, open |-> openBursts, acked |-> ackedBurst,
          sent |-> <<>>, sendOk |-> TRUE, calls |-> <<>>, ok |-> TRUE]

\* EndSession without the publication of Disabled
EndSession_StatusKept(st, ok) ==
    [st EXCEPT !.pc = "disabled", !.grab = None, !.grabbed = FALSE, !.open = {},
               !.acked = None, !.ok = ok]

\* do_capture has returned (with or without error): the backend is dropped,
\* run publishes Disabled and waits for re-enable
EndSession(st, ok) ==
    [st EXCEPT !.pc = "disabled", !.status = "Disabled", !.grab = None,
               !.grabbed = FALSE, !.open = {}, !.acked = None, !.ok = ok]

\* a backend call whose Err ends the session
BackendCall(st, call, ok) ==
    LET st1 == [st EXCEPT !.calls = Append(@, call)]
    IN IF ok THEN st1 ELSE EndSession(st1, FALSE)

\* release_capture: Idle, no active client, backend asked to ungrab
ReleaseCapture(st, relOk) ==
    LET st1 == [st EXCEPT !.state = "Idle", !.active = None, !.open = {}, !.acked = None,
                          !.grabbed = IF relOk THEN FALSE ELSE @]
    IN BackendCall(st1, "release", relOk)

\* Encode without the wait for the peer's Ack: Input is always sent as Input
Encode_NoAck(ev, raw, state) ==
    IF ev = "Begin" THEN [ev |-> "Enter", pos |-> "Left", raw |-> Ev("none")]
    ELSE [ev |-> "Input", pos |-> "none", raw |-> raw]

\* the ProtoEvent handle_capture_event sends for a backend event, given the
\* state after the Begin branch
Encode(ev, raw, state) ==
    IF ev = "Begin" THEN [ev |-> "Enter", pos |-> "Left", raw |-> Ev("none")]
    ELSE IF state = "Sending" THEN [ev |-> "Input", pos |-> "none", raw |-> raw]
    ELSE [ev |-> "Enter", pos |-> "Left", raw |-> Ev("none")]

\* what handle_capture_event does when conn.send returned an error
OnSendFailure(st, relOk) ==
    BackendCall([st EXCEPT !.grabbed = IF relOk THEN FALSE ELSE @], "release", relOk)

\* handle_capture_event without the test of the latch and the hotkey
HandleCaptureEvent_NoLatch(st, handle, ev, raw, latched, sendOk, relOk) ==
    LET st1 == IF ev = "Begin"
               THEN [st EXCEPT !.state = "WaitingForAck", !.active = handle,
                               !.open = @ \cup {handle}, !.acked = None]
               ELSE st
        out == Encode(ev, raw, st1.state)
        st2 == [st1 EXCEPT !.sent = <<[ev |-> out.ev, pos |-> out.pos,
                                       raw |-> out.raw, to |-> handle]>>,
                           !.sendOk = sendOk]
    IN IF sendOk THEN st2 ELSE OnSendFailure(st2, relOk)

\* handle_capture_event for the backend event (handle, ev): latched is
\* should_release.take().is_some() || keys_pressed(release_bind), sendOk the
\* result of conn.send, relOk the result of capture.release()
HandleCaptureEvent(st, handle, ev, raw, latched, sendOk, relOk) ==
    IF latched THEN ReleaseCapture(st, relOk)
    ELSE LET st1 == IF ev = "Begin"
                    THEN [st EXCEPT !.state = "WaitingForAck", !.active = handle,
                                    !.open = @ \cup {handle}, !.acked = None]
                    ELSE st
             out == Encode(ev, raw, st1.state)
             st2 == [st1 EXCEPT !.sent = <<[ev |-> out.ev, pos |-> out.pos,
                                            raw |-> out.raw, to |-> handle]>>,
                                !.sendOk = sendOk]
         IN IF sendOk THEN st2 ELSE OnSendFailure(st2, relOk)

CapCommit(st) ==
    /\ capPc' = st.pc
    /\ capStatus' = st.status
    /\ capState' = st.state
    /\ active' = st.active
    /\ grab' = st.grab
    /\ grabbed' = st.grabbed
    /\ openBursts' = st.open
    /\ ackedBurst' = st.acked

CapStep(op, ev, raw, handle, st, latched) ==
    [op |-> op, ev |-> ev, raw |-> raw, handle |-> handle, stateBefore |-> capState,
     activeBefore |-> active, sent |-> st.sent, sendOk |-> st.sendOk,
     calls |-> st.calls, latched |-> latched,
     latchSet |-> (op = "event" /\ shouldRelease), ok |-> st.ok]

\* InputCapture::new succeeded: publish Enabled, create the barriers of the
\* active clients, start the loop in Idle
CapCreateOk ==
    /\ capPc = "create"
    /\ LET st == [CapSt EXCEPT !.pc = "session", !.status = "Enabled",
                               !.state = "Idle", !.calls = <<"new", "create">>]
       IN CapCommit(st) /\ lastCap' = CapStep("create", "none", Ev("none"), None, st, FALSE)
    /\ UNCHANGED <<cancelled, captureCh, shouldRelease, capClosed, ackFrom>>

\* InputCapture::new or a barrier's create returned an error
CapCreateFail ==
    /\ capPc = "create"
    /\ LET st == EndSession(CapSt, FALSE)
       IN CapCommit(st) /\ lastCap' = CapStep("create", "none", Ev("none"), None, st, FALSE)
    /\ UNCHANGED <<cancelled, captureCh, shouldRelease, capClosed, ackFrom>>

\* cancelled() won the select against InputCapture::new
CapCreateCancelled ==
    /\ capPc = "create"
    /\ cancelled
    /\ LET st == EndSession(CapSt, TRUE)
       IN CapCommit(st)
          /\ lastCap' = CapStep("create_cancelled", "none", Ev("none"), None, st, FALSE)
    /\ UNCHANGED <<cancelled, captureCh, shouldRelease, capClosed, ackFrom>>

\* the capture.next() arm, Begin: the pointer crossed the barrier of h while
\* nothing was grabbed; the backend grabs and reports Begin(h)
CapBegin ==
    /\ capPc = "session"
    /\ ~grabbed
    /\ \E h \in Clients, hot \in BOOLEAN, sendOk \in BOOLEAN, relOk \in BOOLEAN :
         LET latched == shouldRelease \/ hot
             st == HandleCaptureEvent([CapSt EXCEPT !.grab = h, !.grabbed = TRUE],
                                      h, "Begin", Ev("none"), latched, sendOk, relOk)
         IN /\ latched => sendOk
            /\ (~latched /\ sendOk) => relOk
            /\ CapCommit(st)
            /\ ackFrom' = ackFrom \ {h}
            /\ lastCap' = CapStep("event", "Begin", Ev("none"), h, st, latched)
    /\ shouldRelease' = FALSE
    /\ UNCHANGED <<cancelled, captureCh, capClosed>>

\* the capture.next() arm, Input: a device event of the client the backend
\* last began for (grabbed now, or queued before the ungrab)
CapInput ==
    /\ capPc = "session"
    /\ grab # None
    /\ \E raw \in CapInputs, hot \in BOOLEAN, sendOk \in BOOLEAN, relOk \in BOOLEAN :
         LET latched == shouldRelease \/ hot
             st == HandleCaptureEvent(CapSt, grab, "Input", raw, latched, sendOk, relOk)
         IN /\ latched => sendOk
            /\ (~latched /\ sendOk) => relOk
            /\ CapCommit(st)
            /\ lastCap' = CapStep("event", "Input", raw, grab, st, latched)
    /\ shouldRelease' = FALSE
    /\ UNCHANGED <<cancelled, captureCh, capClosed, ackFrom>>

\* the capture.next() arm when the stream ends (None) or yields an error
CapBackendEnd ==
    /\ capPc = "session"
    /\ \E ok \in BOOLEAN :
         LET st == EndSession(CapSt, ok)
         IN CapCommit(st) /\ lastCap' = CapStep("stream_end", "none", Ev("none"), None, st, FALSE)
    /\ UNCHANGED <<cancelled, captureCh, shouldRelease, capClosed, ackFrom>>

\* ConnRecv without the comparison of the sender with the active client
ConnRecv_AnyPeer(st, handle, ev, relOk) ==
    IF st.active = None THEN st
    ELSE IF ev = "Ack"
         THEN [st EXCEPT !.state = "Sending",
                         !.acked = IF st.state = "WaitingForAck" THEN handle ELSE @]
    ELSE IF ev = "Leave" THEN ReleaseCapture(st, relOk)
    ELSE st

\* ConnRecv with an Ack that is noted but does not change the state
ConnRecv_AckDeferred(st, handle, ev, relOk) ==
    IF st.active = None \/ handle # st.active THEN st
    ELSE IF ev = "Ack"
         THEN [st EXCEPT !.acked = IF st.state = "WaitingForAck" THEN handle ELSE @]
    ELSE IF ev = "Leave" THEN ReleaseCapture(st, relOk)
    ELSE st

\* the conn.recv() arm for the event ev of client handle
ConnRecv(st, handle, ev, relOk) ==
    IF st.active = None \/ handle # st.active THEN st
    ELSE IF ev = "Ack"
         THEN [st EXCEPT !.state = "Sending",
                         !.acked = IF st.state = "WaitingForAck" THEN handle ELSE @]
    ELSE IF ev = "Leave" THEN ReleaseCapture(st, relOk)
    ELSE st

CapConnRecvOf(handle, ev) ==
    /\ capPc = "session"
    /\ \E relOk \in BOOLEAN :
         LET st == ConnRecv(CapSt, handle, ev, relOk)
         IN /\ relOk \/ st.calls # <<>>
            /\ CapCommit(st)
            /\ lastCap' = CapStep("conn", ev, Ev("none"), handle, st, FALSE)
    /\ ackFrom' = IF ev = "Ack" THEN ackFrom \cup {handle} ELSE ackFrom
    /\ UNCHANGED <<cancelled, captureCh, shouldRelease, capClosed>>

CapConnRecv == \E handle \in Clients, ev \in {"Ack", "Leave", "Pong"} : CapConnRecvOf(handle, ev)

\* the rx.recv() arm of do_capture for a queued request
CapRx ==
    /\ capPc = "session"
    /\ captureCh # <<>>
    /\ \E ok \in BOOLEAN :
         LET req == Head(captureCh)
             st == IF req = "Release" THEN ReleaseCapture(CapSt, ok)
                   ELSE IF req = "Create" THEN BackendCall(CapSt, "create", ok)
                   ELSE BackendCall(CapSt, "destroy", ok)
         IN CapCommit(st) /\ lastCap' = CapStep("rx", req, Ev("none"), None, st, FALSE)
    /\ captureCh' = Tail(captureCh)
    /\ UNCHANGED <<cancelled, shouldRelease, capClosed, ackFrom>>

\* the rx.recv() arm of do_capture when the request channel is closed and
\* empty (None): break, capture.terminate(), return
CapRxClosed ==
    /\ capPc = "session"
    /\ capClosed
    /\ captureCh = <<>>
    /\ \E ok \in BOOLEAN :
         LET st == EndSession([CapSt EXCEPT !.calls = <<"terminate">>], ok)
         IN CapCommit(st) /\ lastCap' = CapStep("rx_closed", "none", Ev("none"), None, st, FALSE)
    /\ UNCHANGED <<cancelled, captureCh, shouldRelease, capClosed, ackFrom>>

\* the cancelled() arm of do_capture: break, capture.terminate(), return
CapCancelled ==
    /\ capPc = "session"
    /\ cancelled
    /\ \E ok \in BOOLEAN :
         LET st == EndSession([CapSt EXCEPT !.calls = <<"terminate">>], ok)
         IN CapCommit(st) /\ lastCap' = CapStep("cancelled", "none", Ev("none"), None, st, FALSE)
    /\ UNCHANGED <<cancelled, captureCh, shouldRelease, capClosed, ackFrom>>

\* waiting for re-enable: a queued request is received and dropped
CapDrain ==
    /\ capPc = "disabled"
    /\ captureCh # <<>>
    /\ captureCh' = Tail(captureCh)
    /\ lastCap' = CapStep("drain", Head(captureCh), Ev("none"), None, CapSt, FALSE)
    /\ UNCHANGED <<cancelled, capPc, capStatus, capState, active, shouldRelease,
                   capClosed, grab, grabbed, ackFrom, openBursts, ackedBurst>>

\* waiting for re-enable with the request channel closed and empty: rx.recv()
\* yields None, the wait loop breaks and do_capture is entered again
CapClosedRestart ==
    /\ capPc = "disabled"
    /\ capClosed
    /\ captureCh = <<>>
    /\ capPc' = "create"
    /\ lastCap' = CapStep("closed", "none", Ev("none"), None, CapSt, FALSE)
    /\ UNCHANGED <<cancelled, captureCh, capStatus, capState, active, shouldRelease,
                   capClosed, grab, grabbed, ackFrom, openBursts, ackedBurst>>

\* capture_enabled(): do_capture is entered again
CapEnabled ==
    /\ capPc = "disabled"
    /\ capPc' = "create"
    /\ lastCap' = CapStep("enabled", "none", Ev("none"), None, CapSt, FALSE)
    /\ UNCHANGED <<cancelled, captureCh, capStatus, capState, active, shouldRelease,
                   capClosed, grab, grabbed, ackFrom, openBursts, ackedBurst>>

\* cancelled() while waiting for re-enable: run returns
CapDisabledCancelled ==
    /\ capPc = "disabled"
    /\ cancelled
    /\ capPc' = "done"
    /\ lastCap' = CapStep("return", "none", Ev("none"), None, CapSt, FALSE)
    /\ UNCHANGED <<cancelled, captureCh, capStatus, capState, active, shouldRelease,
                   capClosed, grab, grabbed, ackFrom, openBursts, ackedBurst>>

\* Capture::create / destroy / release: the supervisor queues a request
SendRequest ==
    /\ ~capClosed
    /\ Len(captureCh) < MaxQueue
    /\ \E req \in {"Release", "Create", "Destroy"} : captureCh' = Append(captureCh, req)
    /\ UNCHANGED <<cancelled, capOnly>>

\* Capture::terminate: the sending end of the request channel is closed
CapTerminate ==
    /\ ~capClosed
    /\ capClosed' = TRUE
    /\ UNCHANGED <<cancelled, captureCh, capPc, capStatus, capState, active,
                   shouldRelease, grab, grabbed, ackFrom, openBursts, ackedBurst, lastCap>>

\* the release-request latch of the server context is set
SetShouldRelease ==
    /\ ~shouldRelease
    /\ shouldRelease' = TRUE
    /\ UNCHANGED <<cancelled, captureCh, capPc, capStatus, capState, active, capClosed,
                   grab, grabbed, ackFrom, openBursts, ackedBurst, lastCap>>

\* ------------------------------------------------------------ two machines
\* the inbound event the connection layer of the peer hands to its emulation
\* task for a datagram of the capture controller
WireToEvent(m) == IF m.ev = "Enter" THEN Ev("Enter") ELSE m.raw

\* the datagrams of a capture step that reach the peer (client A)
Delivered(step) ==
    IF step.sendOk THEN SelectSeq(step.sent, LAMBDA m : m.to = "A") ELSE <<>>

PairCapBegin ==
    /\ Len(netToPeer) < MaxWire
    /\ CapBegin
    /\ netToPeer' = netToPeer \o Delivered(lastCap')
    /\ UNCHANGED <<emuOnly, netToCap>>

PairCapInput ==
    /\ Len(netToPeer) < MaxWire
    /\ CapInput
    /\ netToPeer' = netToPeer \o Delivered(lastCap')
    /\ UNCHANGED <<emuOnly, netToCap>>

\* the peer's emulation task handles the next datagram; what it sends back
\* travels to the capture controller
PairPeerRx ==
    /\ netToPeer # <<>>
    /\ Len(netToCap) < MaxWire
    /\ EmuUdpRx({WireToEvent(Head(netToPeer))}, {"a1"})
    /\ netToPeer' = Tail(netToPeer)
    /\ netToCap' = netToCap \o lastEmu'.sent
    /\ UNCHANGED capOnly

\* the capture controller receives the next datagram of the peer
PairCapRecv ==
    /\ netToCap # <<>>
    /\ CapConnRecvOf(GetClient(Head(netToCap).to), Head(netToCap).ev)
    /\ netToCap' = Tail(netToCap)
    /\ UNCHANGED <<emuOnly, netToPeer>>

\* ------------------------------------------------------------ one machine
\* the capture side enters the dead zone of the client it marked active
ServerEnterDeadZone == active # None /\ EnterDeadZone

\* ------------------------------------------------------------ specifications
Init ==
    /\ cancelled = FALSE
    /\ mode = "Receiving"
    /\ pressedKeys = [c \in Clients |-> {}]
    /\ alive = [c \in Clients |-> FALSE]
    /\ activeAddr = [c \in Clients |-> None]
    /\ emuPc = "create"
    /\ emuStatus = "Disabled"
    /\ lastIgnored = None
    /\ captureCh = <<>>
    /\ held = [c \in Clients |-> {}]
    /\ oddGiven = [c \in Clients |-> [k \in Keys |-> FALSE]]
    /\ pressFwd = [c \in Clients |-> [k \in Keys |-> 0]]
    /\ relFwd = [c \in Clients |-> [k \in Keys |-> 0]]
    /\ relSynth = [c \in Clients |-> [k \in Keys |-> 0]]
    /\ toggles = [c \in Clients |-> [k \in Keys |-> 0]]
    /\ lastEmu = NoStep
    /\ capPc = "create"
    /\ capStatus = "Disabled"
    /\ capState = "Idle"
    /\ active = None
    /\ shouldRelease = FALSE
    /\ capClosed = FALSE
    /\ grab = None
    /\ grabbed = FALSE
    /\ ackFrom = {}
    /\ openBursts = {}
    /\ ackedBurst = None
    /\ lastCap = NoCapStep
    /\ netToPeer = <<>>
    /\ netToCap = <<>>

\* One emulation task, restarted and cancelled, fed key events and Disconnect by
\* one address of each client; the Global Mode stays Receiving.
KeyInputs == {Ev("Disconnect")} \cup {KeyEv(k, s) : k \in Keys, s \in {0, 1}}
KeysNext ==
    \/ EmuCreateOk /\ UNCHANGED <<capOnly, net>>
    \/ EmuCreateFail /\ UNCHANGED <<capOnly, net>>
    \/ EmuCreateCancelled /\ UNCHANGED <<capOnly, net>>
    \/ EmuUdpRx(KeyInputs, {"a1", "b1"}) /\ UNCHANGED <<capOnly, net>>
    \/ EmuRx /\ UNCHANGED <<capOnly, net>>
    \/ EmuCancelled /\ UNCHANGED <<capOnly, net>>
    \/ EmuDrain /\ UNCHANGED <<capOnly, net>>
    \/ EmuNotified /\ UNCHANGED <<capOnly, net>>
    \/ EmuDisabledCancelled /\ UNCHANGED <<capOnly, net>>
    \/ Cancel /\ UNCHANGED <<capOnly, net>>

SpecKeys == Init /\ [][KeysNext]_vars

\* One emulation session under every Global Mode, fed every kind of event
\* (one key) by one address of each client.
ModeInputs == ControlEvents \cup {Ev("Pointer"), KeyEv(17, 0), KeyEv(17, 1)}
ModesNext ==
    \/ EmuCreateOk /\ UNCHANGED <<capOnly, net>>
    \/ EmuUdpRx(ModeInputs, {"a1", "b1"}) /\ UNCHANGED <<capOnly, net>>
    \/ EmuRx /\ UNCHANGED <<capOnly, net>>
    \/ EmuNetworkError /\ UNCHANGED <<capOnly, net>>
    \/ EnterDeadZone /\ UNCHANGED <<capOnly, net>>

SpecModes == Init /\ [][ModesNext]_vars

\* One capture task, restarted and cancelled, with its backend, its request
\* channel and the events of its peers.
CaptureNext ==
    \/ CapCreateOk /\ UNCHANGED <<emuOnly, net>>
    \/ CapCreateFail /\ UNCHANGED <<emuOnly, net>>
    \/ CapCreateCancelled /\ UNCHANGED <<emuOnly, net>>
    \/ CapBegin /\ UNCHANGED <<emuOnly, net>>
    \/ CapInput /\ UNCHANGED <<emuOnly, net>>
    \/ CapBackendEnd /\ UNCHANGED <<emuOnly, net>>
    \/ CapConnRecv /\ UNCHANGED <<emuOnly, net>>
    \/ CapRx /\ UNCHANGED <<emuOnly, net>>
    \/ CapCancelled /\ UNCHANGED <<emuOnly, net>>
    \/ CapDrain /\ UNCHANGED <<emuOnly, net>>
    \/ CapEnabled /\ UNCHANGED <<emuOnly, net>>
    \/ CapDisabledCancelled /\ UNCHANGED <<emuOnly, net>>
    \/ SendRequest /\ UNCHANGED <<emuOnly, net>>
    \/ SetShouldRelease /\ UNCHANGED <<emuOnly, net>>
    \/ CapTerminate /\ UNCHANGED <<emuOnly, net>>
    \/ CapRxClosed /\ UNCHANGED <<emuOnly, net>>
    \/ CapClosedRestart /\ UNCHANGED <<emuOnly, net>>
    \/ Cancel /\ UNCHANGED <<capOnly, net>>

SpecCapture == Init /\ [][CaptureNext]_vars

\* One emulation task, restarted after a failed session, receiving datagrams of
\* registered and of unknown addresses in every Global Mode.
PeerInputs == {Ev("Enter"), Ev("Leave"), Ev("Ping"), KeyEv(17, 1)}

PeersNext ==
    \/ EmuCreateOk /\ UNCHANGED <<capOnly, net>>
    \/ EmuUdpRx(PeerInputs, Addrs) /\ UNCHANGED <<capOnly, net>>
    \/ EmuNotified /\ UNCHANGED <<capOnly, net>>
    \/ EnterDeadZone /\ UNCHANGED <<capOnly, net>>

SpecPeers == Init /\ [][PeersNext]_vars

\* Both tasks from start to return: sessions that start, fail and restart, a
\* key press from a peer, and the cancellation of the server. tokio::select!
\* picks among the ready arms at random, so an arm that is ready again and
\* again is eventually taken: strong fairness of the cancelled() arms.
ShutdownNext ==
    \/ EmuCreateOk /\ UNCHANGED <<capOnly, net>>
    \/ EmuCreateFail /\ UNCHANGED <<capOnly, net>>
    \/ EmuCreateCancelled /\ UNCHANGED <<capOnly, net>>
    \/ EmuUdpRx({KeyEv(17, 1)}, {"a1"}) /\ UNCHANGED <<capOnly, net>>
    \/ EmuCancelled /\ UNCHANGED <<capOnly, net>>
    \/ EmuNotified /\ UNCHANGED <<capOnly, net>>
    \/ EmuDisabledCancelled /\ UNCHANGED <<capOnly, net>>
    \/ CapCreateOk /\ UNCHANGED <<emuOnly, net>>
    \/ CapCreateFail /\ UNCHANGED <<emuOnly, net>>
    \/ CapCreateCancelled /\ UNCHANGED <<emuOnly, net>>
    \/ CapBackendEnd /\ UNCHANGED <<emuOnly, net>>
    \/ CapCancelled /\ UNCHANGED <<emuOnly, net>>
    \/ CapEnabled /\ UNCHANGED <<emuOnly, net>>
    \/ CapDisabledCancelled /\ UNCHANGED <<emuOnly, net>>
    \/ Cancel /\ UNCHANGED <<capOnly, net>>

ShutdownFairness ==
    /\ SF_vars(EmuCreateCancelled /\ UNCHANGED <<capOnly, net>>)
    /\ SF_vars(EmuCancelled /\ UNCHANGED <<capOnly, net>>)
    /\ SF_vars(EmuDisabledCancelled /\ UNCHANGED <<capOnly, net>>)
    /\ SF_vars(CapCreateCancelled /\ UNCHANGED <<emuOnly, net>>)
    /\ SF_vars(CapCancelled /\ UNCHANGED <<emuOnly, net>>)
    /\ SF_vars(CapDisabledCancelled /\ UNCHANGED <<emuOnly, net>>)

SpecShutdown == Init /\ [][ShutdownNext]_vars /\ ShutdownFairness

\* One capture task whose owner calls Capture::terminate while neither
\* cancelled() nor capture_enabled() fires. The task is scheduled whenever one
\* of its select arms or the backend's creation is ready: weak fairness of its
\* steps.
TaskStep ==
    \/ CapCreateOk
    \/ CapCreateFail
    \/ CapRx
    \/ CapRxClosed
    \/ CapDrain
    \/ CapClosedRestart

TerminateNext ==
    \/ TaskStep /\ UNCHANGED <<emuOnly, net>>
    \/ CapBegin /\ UNCHANGED <<emuOnly, net>>
    \/ CapInput /\ UNCHANGED <<emuOnly, net>>
    \/ CapBackendEnd /\ UNCHANGED <<emuOnly, net>>
    \/ SendRequest /\ UNCHANGED <<emuOnly, net>>
    \/ CapTerminate /\ UNCHANGED <<emuOnly, net>>

SpecTerminate ==
    Init /\ [][TerminateNext]_vars /\ WF_vars(TaskStep /\ UNCHANGED <<emuOnly, net>>)

\* A capture controller on one machine and the emulation controller of its
\* peer (client A, address a1) on another, joined by a channel that delivers.
PairNext ==
    \/ CapCreateOk /\ UNCHANGED <<emuOnly, net>>
    \/ PairCapBegin
    \/ PairCapInput
    \/ PairCapRecv
    \/ EmuCreateOk /\ UNCHANGED <<capOnly, net>>
    \/ PairPeerRx
    \/ EmuNotified /\ UNCHANGED <<capOnly, net>>

SpecPair == Init /\ [][PairNext]_vars

\* The two controllers of one machine sharing the server context.
ServerInputs == {Ev("Enter"), Ev("Leave"), Ev("Pointer")}

ServerNext ==
    \/ EmuCreateOk /\ UNCHANGED <<capOnly, net>>
    \/ EmuUdpRx(ServerInputs, {"a1"}) /\ UNCHANGED <<capOnly, net>>
    \/ ServerEnterDeadZone /\ UNCHANGED <<capOnly, net>>
    \/ CapCreateOk /\ UNCHANGED <<emuOnly, net>>
    \/ CapBegin /\ UNCHANGED <<emuOnly, net>>
    \/ CapConnRecv /\ UNCHANGED <<emuOnly, net>>
    \/ CapRx /\ UNCHANGED <<emuOnly, net>>

SpecServer == Init /\ [][ServerNext]_vars

\* ------------------------------------------------------------ properties
\* the last step handled a datagram of a registered address
UdpStep == lastEmu.op = "udp" /\ lastEmu.handle # None
\* the emulation session has ended and do_emulation has returned
TornDown == emuPc \in {"disabled", "done"}

\* C1: after every teardown of an emulation session pressed_keys is empty for
\* every client and the backend holds no key down.
C1_NoStuckKeys ==
    TornDown => \A c \in Clients : pressedKeys[c] = {} /\ held[c] = {}

C5_Collision ==
    (UdpStep /\ lastEmu.modeBefore = "Sending"
       /\ lastEmu.ev.t \in {"Key", "Pointer"})
    => /\ lastEmu.released = 1
       /\ mode = "Receiving"
       /\ Len(lastEmu.calls) = 1
       /\ lastEmu.calls[1].ev = lastEmu.ev
       /\ lastEmu.calls[1].h = lastEmu.handle

\* C8: for every client and key the presses forwarded equal the releases
\* forwarded, neither exceeds the inbound events that toggled the pressed
\* state, and a double press or release is never forwarded.
C8_FilterAsClaimed ==
    /\ \A c \in Clients, k \in Keys :
         /\ pressFwd[c][k] = relFwd[c][k]
         /\ pressFwd[c][k] <= toggles[c][k]
         /\ relFwd[c][k] <= toggles[c][k]
    /\ (UdpStep /\ lastEmu.dup) => lastEmu.calls = <<>>

\* C8 (amended): the releases given to the backend (forwarded, or synthesized
\* by release_keys) never exceed the presses forwarded, and are fewer while
\* the key is in pressed_keys; presses and releases forwarded add up to the
\* inbound events that toggled the pressed state; a double press or release
\* is never forwarded.
C8_Filter ==
    /\ \A c \in Clients, k \in Keys :
         /\ relFwd[c][k] + relSynth[c][k] <= pressFwd[c][k]
         /\ k \in pressedKeys[c] => relFwd[c][k] + relSynth[c][k] < pressFwd[c][k]
         /\ pressFwd[c][k] + relFwd[c][k] = toggles[c][k]
    /\ (UdpStep /\ lastEmu.dup) => lastEmu.calls = <<>>

C8_Witness ==
    /\ UdpStep
    /\ lastEmu.ev = KeyEv(17, 1)
    /\ lastEmu.dup
    /\ lastEmu.calls = <<>>
    /\ pressFwd["A"][17] = 1
    /\ relFwd["A"][17] = 0
    /\ 17 \in pressedKeys["A"]

\* C9: key k is in pressed_keys[c] iff the backend has been given an odd number
\* of press/release events for k on c since the last release_keys of c.
C9_Parity ==
    \A c \in Clients, k \in Keys : (k \in pressedKeys[c]) <=> oddGiven[c][k]

C9_Witness ==
    /\ UdpStep
    /\ lastEmu.ev = KeyEv(17, 1)
    /\ lastEmu.handle = "A"
    /\ relSynth["A"][17] = 1
    /\ pressFwd["A"][17] = 2
    /\ 17 \in pressedKeys["A"]
    /\ oddGiven["A"][17]

\* ------------------------------------------------------------ capture
CapEmitted == lastCap.op = "event" /\ lastCap.sent # <<>>

\* C2: when the capture controller emitted Enter for a client, the peer's
\* emulation controller answers the Enter with an Ack (after which capture
\* reaches Sending, sends Input as Input and the peer consumes it).
C2_RoundTrip ==
    (lastEmu.op = "udp" /\ lastEmu.ev.t = "Enter" /\ lastEmu.handle # None)
        => \E i \in 1..Len(lastEmu.sent) : lastEmu.sent[i].ev = "Ack"

\* C3: an Input is emitted to client h only if an Ack from h arrived after the
\* most recent Begin(h); an event emitted to h before that Ack is an Enter.
C3_AckBeforeInput ==
    CapEmitted =>
        LET m == lastCap.sent[1]
        IN /\ m.ev \in {"Enter", "Input"}
           /\ m.ev = "Input" =>
                 /\ m.to \in ackFrom
                 /\ lastCap.ev = "Input"
                 /\ m.raw = lastCap.raw
                 /\ lastCap.stateBefore = "Sending"
           /\ m.to \notin ackFrom => m.ev = "Enter"

C3_Witness ==
    /\ CapEmitted
    /\ lastCap.sent[1].ev = "Input"
    /\ lastCap.sent[1].to \in ackFrom
    /\ lastCap.sendOk

\* C6: when sending an outbound event fails, release_capture runs: afterwards
\* the state is Idle, no client is active and the backend was asked to ungrab.
C6_SendFailureReleases ==
    (CapEmitted /\ ~lastCap.sendOk) =>
        /\ capState = "Idle"
        /\ active = None
        /\ \E i \in 1..Len(lastCap.calls) : lastCap.calls[i] = "release"

\* C7: between a Begin(h) and the next release_capture every emitted event is
\* addressed to h, and the event emitted for the Begin is an Enter.
C7_Monotonic ==
    CapEmitted =>
        /\ \A h \in openBursts : lastCap.sent[1].to = h
        /\ lastCap.ev = "Begin" => lastCap.sent[1].ev = "Enter"

\* C10: whenever the Global Mode is Sending, the capture side has a client
\* marked active.
C10_SendingHasActive == mode = "Sending" => active # None

\* C11: a failing consume call while handling an inbound event does not end
\* the emulation session: the loop goes on and the status stays Enabled.
C11_TransientError ==
    (UdpStep /\ ~lastEmu.ok) => (emuPc = "session" /\ emuStatus = "Enabled")

\* C12: every Enter the capture controller sends to a client carries the
\* position that client is configured at.
C12_EnterPosition ==
    (CapEmitted /\ lastCap.sent[1].ev = "Enter")
        => lastCap.sent[1].pos = PosOf(lastCap.sent[1].to)

\* C13: a datagram of an address with no registered client changes no client
\* state, mode or backend state and sends nothing; it is logged exactly when
\* the previous datagram of the session was not an ignored one of that address.
C13_UnknownPeerFilter ==
    [][(lastEmu'.op = "udp" /\ lastEmu'.handle = None)
        => /\ UNCHANGED <<mode, pressedKeys, alive, activeAddr, held, captureCh,
                          emuPc, emuStatus>>
           /\ lastEmu'.sent = <<>>
           /\ lastEmu'.calls = <<>>
           /\ lastEmu'.released = 0
           /\ lastEmu'.logged = (lastIgnored # lastEmu'.addr)]_vars

C13_Witness ==
    /\ lastEmu.op = "udp"
    /\ lastEmu.handle = None
    /\ lastEmu.addr \in UnknownAddrs
    /\ ~lastEmu.logged
    /\ lastIgnored = lastEmu.addr

\* both tasks have returned
Returned == emuPc = "done" /\ capPc = "done"

\* once cancelled() has fired both tasks eventually return
Converges == cancelled ~> Returned

\* C14: after cancellation both tasks return, and the emulation task has
\* released all keys before it returns: none is left pressed in the registry
\* or held down in the backend.
C14_Cancellation ==
    (cancelled /\ Returned) => \A c \in Clients : pressedKeys[c] = {} /\ held[c] = {}

\* C15: while waiting after a session the capture task re-enters do_capture
\* only on capture_enabled() and returns only on cancelled(); a request
\* received meanwhile reaches neither the backend nor the capture state.
C15_Supervision ==
    [][capPc = "disabled" =>
         /\ capPc' = "create" => lastCap'.op = "enabled"
         /\ capPc' = "done" => cancelled
         /\ capPc' = "disabled" => /\ lastCap'.calls = <<>>
                                   /\ UNCHANGED <<capState, active, grab, grabbed>>]_vars

\* C16: Enabled is published only in a session whose backend was created;
\* whenever a controller waits for re-enable, or has returned, its last
\* published status is Disabled.
C16_StatusSurface ==
    /\ emuPc \in {"disabled", "done"} => emuStatus = "Disabled"
    /\ capPc \in {"disabled", "done"} => capStatus = "Disabled"
    /\ emuStatus = "Enabled" => emuPc = "session"
    /\ capStatus = "Enabled" => capPc = "session"

C16_Witness ==
    /\ emuPc = "disabled" /\ lastEmu.op = "udp" /\ ~lastEmu.ok
    /\ capPc = "disabled" /\ lastCap.op = "stream_end"
    /\ emuStatus = "Disabled" /\ capStatus = "Disabled"

\* C17: in AwaitingLeave an inbound Leave sets the mode to Sending and pushes
\* no Release, an inbound Enter sets it to Receiving and pushes exactly one
\* Release, any other event leaves it AwaitingLeave; Leave and the input
\* events cause no call to the emulation backend.
C17_AwaitingLeave ==
    (UdpStep /\ lastEmu.modeBefore = "AwaitingLeave") =>
        /\ lastEmu.ev.t = "Leave" =>
              mode = "Sending" /\ lastEmu.released = 0 /\ lastEmu.calls = <<>>
        /\ lastEmu.ev.t = "Enter" => mode = "Receiving" /\ lastEmu.released = 1
        /\ lastEmu.ev.t \notin {"Leave", "Enter"} =>
              mode = "AwaitingLeave" /\ lastEmu.released = 0
        /\ lastEmu.ev \in InputEvents => lastEmu.calls = <<>>

C17_Witness ==
    /\ UdpStep
    /\ lastEmu.modeBefore = "AwaitingLeave"
    /\ lastEmu.ev.t = "Leave"
    /\ mode = "Sending"

\* the last capture step handled an event of the client that was active
FromActive == lastCap.activeBefore # None /\ lastCap.handle = lastCap.activeBefore

\* C18: a Leave from the active client sets the state to Idle, clears the
\* active client and asks the backend to ungrab; an Ack from the active client
\* sets the state to Sending; an Ack or Leave from any other client, or while no
\* client is active, changes neither the state nor the active client.
C18_ActivePeerOnly ==
    lastCap.op = "conn" =>
        /\ (FromActive /\ lastCap.ev = "Leave") =>
              /\ capState = "Idle"
              /\ active = None
              /\ lastCap.calls = <<"release">>
              /\ lastCap.ok => ~grabbed
        /\ (FromActive /\ lastCap.ev = "Ack") => capState = "Sending"
        /\ ~FromActive =>
              /\ capState = lastCap.stateBefore
              /\ active = lastCap.activeBefore
              /\ lastCap.calls = <<>>

C18_Witness ==
    /\ lastCap.op = "conn"
    /\ lastCap.ev = "Ack"
    /\ lastCap.activeBefore # None
    /\ lastCap.handle # lastCap.activeBefore
    /\ capState = "WaitingForAck"

\* the step handles a backend event (Begin or Input) of the capture backend:
\* it is neither a request, a cancellation or a close, nor the setting of the latch
EventStep ==
    /\ lastCap'.op = "event"
    /\ UNCHANGED <<cancelled, captureCh, capClosed>>
    /\ shouldRelease' => shouldRelease

\* C19: an Ack of the active client handled in WaitingForAck sets the state to
\* Sending at once; every event emitted after it in the same burst is an Input
\* to that client, never an Enter.
C19_AckBeforeNext ==
    /\ (lastCap.op = "conn" /\ FromActive /\ lastCap.ev = "Ack"
          /\ lastCap.stateBefore = "WaitingForAck")
       => (capState = "Sending" /\ ackedBurst = lastCap.handle)
    /\ (CapEmitted /\ ackedBurst # None)
       => (lastCap.sent[1].ev = "Input" /\ lastCap.sent[1].to = ackedBurst)

C19_Witness ==
    /\ CapEmitted
    /\ ackedBurst # None
    /\ lastCap.sent[1].ev = "Input"
    /\ lastCap.stateBefore = "Sending"

\* C20: a backend event handled while should_release is set is not forwarded:
\* the latch is cleared, the state becomes Idle, no client is active and the
\* backend is asked to ungrab; an event handled with the latch unset (and the
\* release hotkey not pressed) is forwarded.
C20_Latch ==
    [][EventStep =>
         /\ ~shouldRelease'
         /\ shouldRelease =>
               /\ lastCap'.latched
               /\ lastCap'.sent = <<>>
               /\ capState' = "Idle"
               /\ active' = None
               /\ lastCap'.calls = <<"release">>
               /\ lastCap'.ok => ~grabbed'
         /\ (~shouldRelease /\ ~lastCap'.latched) => lastCap'.sent # <<>>]_vars

C20_Witness ==
    /\ lastCap.op = "event"
    /\ lastCap.latchSet
    /\ lastCap.stateBefore = "Sending"
    /\ lastCap.sent = <<>>
    /\ capState = "Idle"
    /\ ~shouldRelease

\* ------------------------------------------------------------ emulation, again
\* C21: an inbound Enter of a registered address is answered with exactly one
\* Leave to that address, in every Global Mode; no other event is answered
\* with a Leave.
C21_EnterAnswered ==
    UdpStep =>
        /\ lastEmu.ev.t = "Enter" => lastEmu.sent = <<[ev |-> "Leave", to |-> lastEmu.addr]>>
        /\ lastEmu.ev.t # "Enter" =>
              \A i \in 1..Len(lastEmu.sent) : lastEmu.sent[i].ev # "Leave"

C21_Witness ==
    /\ UdpStep
    /\ lastEmu.ev.t = "Enter"
    /\ lastEmu.modeBefore = "Sending"
    /\ lastEmu.sent = <<[ev |-> "Leave", to |-> lastEmu.addr]>>

\* the calls made for client c are one Key release for each key of before,
\* then one Modifiers event
ReleasedAsClaimed(c, before, calls) ==
    LET cs == SelectSeq(calls, LAMBDA x : x.h = c)
        n == Len(cs)
    IN /\ n = Cardinality(before) + 1
       /\ \A i \in 1..(n - 1) : cs[i].ev.t = "Key" /\ cs[i].ev.state = 0
       /\ {cs[i].ev.key : i \in 1..(n - 1)} = before
       /\ cs[n].ev = ModifiersEv

\* the step runs release_keys: for a Disconnect, a ReleaseKeys request or the
\* teardown after cancellation
ReleaseStep ==
    /\ UNCHANGED cancelled
    /\ \/ lastEmu'.op \in {"ReleaseKeys", "cancelled"}
       \/ lastEmu'.op = "udp" /\ lastEmu'.handle # None /\ lastEmu'.ev.t = "Disconnect"

\* C22: release_keys(c) empties pressed_keys[c], gives the backend one Key
\* release for each key that was in it and then one Modifiers event, and
\* leaves the pressed_keys of the other clients and the Global Mode unchanged.
C22_ReleaseKeys ==
    [][ReleaseStep =>
         LET cs == IF lastEmu'.op = "cancelled" THEN Clients ELSE {lastEmu'.handle}
         IN /\ \A c \in cs : /\ pressedKeys'[c] = {}
                             /\ ReleasedAsClaimed(c, pressedKeys[c], lastEmu'.calls)
            /\ \A d \in Clients \ cs : pressedKeys'[d] = pressedKeys[d]
            /\ mode' = mode]_vars

\* C23: after a datagram of an address registered to client h was handled,
\* in any mode and for any event, alive[h] holds, active_addr[h] is that
\* address, the event was dispatched under h, and alive and active_addr of
\* the other clients are unchanged.
C23_Stickiness ==
    [][(lastEmu'.op = "udp" /\ GetClient(lastEmu'.addr) # None) =>
         LET h == GetClient(lastEmu'.addr)
         IN /\ lastEmu'.handle = h
            /\ alive'[h]
            /\ activeAddr'[h] = lastEmu'.addr
            /\ \A i \in 1..Len(lastEmu'.calls) : lastEmu'.calls[i].h = h
            /\ \A d \in Clients \ {h} : alive'[d] = alive[d] /\ activeAddr'[d] = activeAddr[d]]_vars

C23_Witness ==
    /\ lastEmu.op = "udp"
    /\ lastEmu.addr = "a2"
    /\ lastEmu.handle = "A"
    /\ lastEmu.modeBefore = "Sending"
    /\ activeAddr["A"] = "a2"
    /\ activeAddr["B"] = "b1"
    /\ alive["A"]

\* ------------------------------------------------------------ capture, again
\* C24: in a running capture session the state is Idle exactly when no client
\* is marked active.
C24_IdleIffNoActive ==
    capPc = "session" => (capState = "Idle" <=> active = None)

\* C25: a backend Input event handled while the state is Idle sends nothing.
C25_IdleSilent ==
    (lastCap.op = "event" /\ lastCap.ev = "Input" /\ lastCap.stateBefore = "Idle")
        => lastCap.sent = <<>>

\* C26: every emulation session starts with pressed_keys empty for every
\* client, so that the first press of a key in the session is forwarded.
C26_FreshSession ==
    (lastEmu.op = "create" /\ emuPc = "session")
        => \A c \in Clients : pressedKeys[c] = {}

\* C27: once Capture::terminate has closed the request channel, the capture
\* task eventually returns.
C27_TerminateFinishes == capClosed ~> (capPc = "done")

====
